---- MODULE Spec2Model ----
(***************************************************************************)
(* MMM-GeminiWaveform: the node helper (backend supervisor and WebSocket   *)
(* bridge client, node_helper.js) and the part of the frontend module that *)
(* receives its notifications (MMM-GeminiWaveform.js).                     *)
(*                                                                         *)
(* One action per event handler.  Everything runs on one event loop, so a  *)
(* handler is one atomic step.  The ws library, the child process and the  *)
(* timers are the environment: they deliver open / message / error / close *)
(* events, exit events and timer firings in any order the libraries allow. *)
(***************************************************************************)
EXTENDS Integers, Sequences, FiniteSets, TLC

\* ---------------------------------------------------------------- bounds
MaxSockets  == 2    \* WebSocket objects alive (not yet closed) at once
MaxProcs    == 2    \* child processes alive (not yet exited) at once
MaxAttempts == 6    \* cap on reconnectAttempts (unbounded in the code)
MaxRelaunch == 1    \* relaunch timers pending at once
MaxTime     == 1    \* ticks of the clock
MaxClock    == 2    \* ticks of the clock while the animation runs
MaxFrames   == 3    \* animateWaveform() calls since start's
MaxIdleFrames == 100 \* frame callbacks run, the idle ones included
MaxRequests == 2    \* animation-frame request ids
TickMs      == 250  \* milliseconds in one tick of the clock

\* ------------------------------------------------------------- constants
NULL            == 0       \* null handle (ws, pythonProcess)
BackoffBase     == 1000    \* 1000 * 2^attempts
BackoffCap      == 30000   \* max 30s
RelaunchDelay   == 5000    \* setTimeout(..., 5000)
Unit            == 1000    \* amplitudes are in thousandths: 1.0 is 1000
IdleAmplitude   == 60      \* defaults.idleAmplitude: 0.06
AnimationSpeed  == 35      \* defaults.animationSpeed: 0.35, in hundredths of a radian
CanvasWidth     == 300     \* defaults.width
CanvasHeight    == 100     \* defaults.height
IdleThreshold   == 250     \* timeSinceData > 250
SmoothPercent   == 18      \* (target - current) * 0.18
DecayPercent    == 96      \* targetAmplitude *= 0.96
MaxPoints       == 200     \* Math.min(200, width)
Pi              == 3142    \* Math.PI, in thousandths of a radian
TwoPi           == 6283    \* 2 * Math.PI
NaN             == 0 - 999999999   \* the value of 0 / 0

Sockets == 1..MaxSockets
Procs   == 1..MaxProcs

\* The exit codes the child's "close" event may carry.
ExitCodes == {0, 1}

\* The widths the canvas is configured with (config.width).
Widths == {1, 2, CanvasWidth}

\* The CONFIG payloads: pythonHost decides whether the URL is well formed.
Configs == [pythonHost : {"localhost", "bad host"}]
NoConfig == [pythonHost |-> "null"]

\* ------------------------------------------------------- inbound frames
\* A frame is the text the backend sent.  JSONParse gives what JSON.parse
\* returns for it: kind "throw" is a SyntaxError, otherwise the value.
NoData == [defined |-> FALSE, hasAmplitude |-> FALSE, amplitude |-> 0,
           hasPhase |-> FALSE, phase |-> 0]
Sample(a, p) == [defined |-> TRUE, hasAmplitude |-> TRUE, amplitude |-> a,
                 hasPhase |-> TRUE, phase |-> p]

AmplitudeOnly(a) == [defined |-> TRUE, hasAmplitude |-> TRUE, amplitude |-> a,
                     hasPhase |-> FALSE, phase |-> 0]
PhaseOnly(p) == [defined |-> TRUE, hasAmplitude |-> FALSE, amplitude |-> 0,
                 hasPhase |-> TRUE, phase |-> p]

\* The amplitudes the backend sends: it clamps nothing, so -0.2 and 1.5 too.
SampleAmplitudes == {0 - 200, 500, 1000, 1500}

\* The data of the WAVEFORM_DATA notifications the frontend is given.
SampleData == {Sample(a, 157) : a \in SampleAmplitudes} \cup {PhaseOnly(157)}

Frames == {"not json", "null", "{}", "{\"type\":\"ping\"}",
           "{\"type\":\"waveform\"}",
           "{\"type\":\"waveform\",\"data\":{\"amplitude\":0.8,\"phase\":1.57}}"}

JSONParse(frame) ==
    CASE frame = "not json" -> [kind |-> "throw",  type |-> "undefined", data |-> NoData]
      [] frame = "null"     -> [kind |-> "null",   type |-> "undefined", data |-> NoData]
      [] frame = "{}"       -> [kind |-> "object", type |-> "undefined", data |-> NoData]
      [] frame = "{\"type\":\"ping\"}"
                            -> [kind |-> "object", type |-> "ping",      data |-> NoData]
      [] frame = "{\"type\":\"waveform\"}"
                            -> [kind |-> "object", type |-> "waveform",  data |-> NoData]
      [] OTHER              -> [kind |-> "object", type |-> "waveform",  data |-> Sample(800, 157)]

\* ------------------------------------------------------------ variables
VARIABLES
    config,             \* this.config (NoConfig = null)
    ws,                 \* this.ws: a socket id or NULL
    readyState,         \* readyState of every WebSocket object ("NONE": no such object)
    aborted,            \* sockets closed while connecting: the error event is still due
    pythonProcess,      \* this.pythonProcess: a process id or NULL
    procState,          \* every child process: "none" | "running" | "killed"
    relaunchTimers,     \* pending setTimeout(..., 5000) callbacks
    reconnectTimer,     \* this.reconnectTimer: "null" | "pending" | "fired"
    reconnectAttempts,  \* this.reconnectAttempts
    envExists,          \* python-backend/.env exists
    stopped,            \* stop() has run and no CONFIG has come since
    failures,           \* connection failures since the last open event
    lastOp,             \* the handler that ran last
    lastFrame,          \* the frame it handled ("": it handled none)
    emitted,            \* notifications that handler sent to the frontend
    reconnectDelay,     \* delay of the reconnect timer that handler armed (0: none)
    relaunchDelay,      \* delay of the relaunch timer that handler armed (0: none)
    spawned,            \* that handler spawned a child process
    created,            \* that handler constructed a WebSocket
    sentOn,             \* socket that handler sent the config handshake on
    uncaught,           \* an exception left that handler
    fatalLogs,          \* console.error calls of that handler's .env check
    connected,          \* frontend: this.connected
    targetAmplitude,    \* frontend: this.targetAmplitude (thousandths)
    wavePhase,          \* frontend: this.wavePhase (hundredths of a radian)
    lastDataTime,       \* frontend: this.lastDataTime
    now,                \* Date.now(), in ticks
    frontError,         \* frontend: its handler threw on what that handler sent
    currentAmplitude,   \* frontend: this.currentAmplitude (thousandths)
    ctx,                \* frontend: this.ctx is set (getDom has run)
    canvasWidth,        \* frontend: this.canvas.width (0: no canvas yet)
    animationFrame,     \* frontend: this.animationFrame, a request id or NULL
    rafPending,         \* animation-frame requests the browser holds
    drew,               \* that handler called drawWaveform
    idleFrame,          \* that handler ran a frame with timeSinceData > 250
    effectiveAmplitude, \* the amplitude it passed to drawWaveform
    drawn,              \* what drawWaveform made of it
    maxSample,          \* the largest sample amplitude received so far
    samplesInRange,     \* every sample amplitude so far was in [0, 1]
    frames              \* animateWaveform() calls since start's

helperVars == <<config, ws, readyState, aborted, pythonProcess, procState,
                relaunchTimers, reconnectTimer, reconnectAttempts, envExists,
                stopped, failures>>
stepVars   == <<lastOp, lastFrame, emitted, reconnectDelay, relaunchDelay,
                spawned, created, sentOn, uncaught, fatalLogs, frontError>>
frontVars  == <<connected, targetAmplitude, wavePhase, lastDataTime, now>>
animVars   == <<currentAmplitude, ctx, canvasWidth, animationFrame, rafPending>>
frameVars  == <<drew, idleFrame, effectiveAmplitude, drawn>>
histVars   == <<maxSample, samplesInRange, frames>>
vars       == <<helperVars, stepVars, frontVars, animVars, frameVars, histVars>>

Min(S) == CHOOSE x \in S : \A y \in S : x <= y

\* ------------------------------------------------------------- frontend
\* The notifications the helper sends with sendSocketNotification.
ConnectionStatus(c) == [notification |-> "CONNECTION_STATUS", connected |-> c, data |-> NoData]
WaveformData(d)     == [notification |-> "WAVEFORM_DATA", connected |-> FALSE, data |-> d]

\* A handler that runs no frame draws nothing.
NoDrawing == [numPoints |-> 0, defined |-> TRUE, first |-> <<0, 0>>, last |-> <<0, 0>>]

NoFrame ==
    /\ drew' = FALSE /\ idleFrame' = FALSE
    /\ effectiveAmplitude' = 0 /\ drawn' = NoDrawing

InRange(a) == 0 <= a /\ a <= Unit

\* this.targetAmplitude = data.amplitude
Ingested(a) == a

\* updateWaveformData(data): reading data.amplitude throws when no data came.
UpdateWaveformData(data) ==
    IF ~data.defined
    THEN /\ frontError' = TRUE
         /\ UNCHANGED <<targetAmplitude, lastDataTime, wavePhase, histVars>>
    ELSE /\ frontError' = FALSE
         /\ UNCHANGED frames
         /\ targetAmplitude' = IF data.hasAmplitude THEN Ingested(data.amplitude)
                                ELSE targetAmplitude
         /\ lastDataTime'    = IF data.hasAmplitude THEN now ELSE lastDataTime
         /\ wavePhase'       = IF data.hasPhase THEN data.phase ELSE wavePhase
         /\ maxSample'       = IF data.hasAmplitude /\ data.amplitude > maxSample
                                THEN data.amplitude ELSE maxSample
         /\ samplesInRange'  = (samplesInRange /\
                                  (data.hasAmplitude => InRange(data.amplitude)))

\* The frontend module's socketNotificationReceived.
FrontendReceived(n) ==
    /\ UNCHANGED now
    /\ IF n.notification = "WAVEFORM_DATA"
       THEN UpdateWaveformData(n.data) /\ UNCHANGED connected
       ELSE /\ connected' = n.connected
            /\ frontError' = FALSE
            /\ UNCHANGED <<targetAmplitude, lastDataTime, wavePhase, histVars>>

\* sendSocketNotification, once per element of ns (a handler sends at most
\* one): the frontend module receives what the helper sent.  No helper
\* handler runs a frame.
SendSocketNotification(ns) ==
    /\ emitted' = ns
    /\ NoFrame
    /\ UNCHANGED animVars
    /\ IF ns = <<>>
       THEN frontError' = FALSE /\ UNCHANGED <<frontVars, histVars>>
       ELSE FrontendReceived(ns[1])

\* ------------------------------------------------------------ arithmetic
\* The module computes in double precision, rounding every result to the
\* nearest double.  Here amplitudes are thousandths, phases hundredths of a
\* radian, angles thousandths of a radian, coordinates thousandths of a
\* pixel, and every result is rounded to the nearest of these.
Round(n, d) == (2 * n + d) \div (2 * d)

Max(a, b) == IF a >= b THEN a ELSE b

\* Math.sin on [0, pi], in thousandths (Bhaskara's formula, within 0.002).
SinHalf(r) ==
    LET p == r * (Pi - r) IN (16 * p) \div ((5 * Pi * Pi - 4 * p) \div 1000)

\* Math.sin(x), x in thousandths of a radian, in thousandths.
Sin(x) ==
    LET r == x % TwoPi IN
    IF r <= Pi THEN SinHalf(r) ELSE 0 - SinHalf(r - Pi)

\* A smoother that closes half of the gap in every frame.
SmoothHalf(c, t) == c + Round((t - c) * 50, 100)

\* A smoother that steps past its target.
SmoothOvershoot(c, t) == c + Round((t - c) * (100 + SmoothPercent), 100)

\* this.currentAmplitude += (this.targetAmplitude - this.currentAmplitude) * 0.18
Smooth(c, t) == c + Round((t - c) * SmoothPercent, 100)

\* An idle frame that leaves the target alone.
DecayNone(t) == t

\* this.targetAmplitude *= 0.96
Decay(t) == Round(t * DecayPercent, 100)

\* The idle test with the threshold itself counted as idle.
IdleInclusive(t, last) == (t - last) * TickMs >= IdleThreshold

\* Date.now() - this.lastDataTime > 250
Idle(t, last) == (t - last) * TickMs > IdleThreshold

\* idleAmplitude * (0.6 + 0.4 * Math.sin(this.wavePhase * 0.6))
IdleAmp(phase) ==
    Round(IdleAmplitude * (600 + Round(400 * Sin(phase * 6), 1000)), 1000)

\* ------------------------------------------------------------- renderer
\* Math.min(200, width)
NumPoints(width) == IF width < MaxPoints THEN width ELSE MaxPoints

\* Math.max(12, 6 + amplitude * 6)
Margin(amplitude) == Max(12 * 1000, 6 * 1000 + amplitude * 6)

\* t = i / (numPoints - 1), in thousandths; 0 / 0 is NaN.
ParamT(i, n) == IF n - 1 = 0 THEN NaN ELSE Round(1000 * i, n - 1)

\* The three harmonics, weighted, times the amplitude.
Wave(t, amplitude, phase) ==
    LET w1 == Sin(phase * 10 + Round(t * 4 * Pi, 1000)) * 350
        w2 == Sin(phase * 17 + Round(t * 7 * Pi, 1000)) * 220
        w3 == Sin(phase * 8  + Round(t * 2 * Pi, 1000)) * 500
    IN  Round(Round(w1 + w2 + w3, 1000) * amplitude, 1000)

\* The point of index i: <<x, y>>.  Arithmetic on NaN gives NaN.
Point(i, n, amplitude, width, phase) ==
    LET t == ParamT(i, n) IN
    IF t = NaN THEN <<NaN, NaN>>
    ELSE <<Margin(amplitude)
              + Round(t * (width * 1000 - 2 * Margin(amplitude)), 1000),
           (CanvasHeight * 1000) \div 2
              + Round(Wave(t, amplitude, phase) * CanvasHeight * 280, 1000)>>

\* drawWaveform(amplitude): the number of points, whether every coordinate
\* is a number (x and y of a point are numbers exactly when its t is), and
\* the two points the end caps are drawn at.
DrawWaveform(amplitude, width, phase) ==
    LET n == NumPoints(width) IN
    [numPoints |-> n,
     defined   |-> \A i \in 0..(n - 1) : ParamT(i, n) # NaN,
     first     |-> Point(0, n, amplitude, width, phase),
     last      |-> Point(n - 1, n, amplitude, width, phase)]

\* ------------------------------------------------------- animation loop
RafIds == 1..MaxRequests

\* requestAnimationFrame(...) with the requests in pending outstanding: a new
\* request, whose id is kept in this.animationFrame.
RequestAnimationFrame(pending) ==
    /\ RafIds \ pending # {}
    /\ LET id == Min(RafIds \ pending) IN
         /\ animationFrame' = id
         /\ rafPending' = pending \cup {id}

\* animateWaveform() with the requests in pending outstanding.
AnimateWaveform(pending) ==
    IF ~ctx
    THEN /\ RequestAnimationFrame(pending)
         /\ NoFrame
         /\ UNCHANGED <<currentAmplitude, targetAmplitude, wavePhase>>
    ELSE LET c    == Smooth(currentAmplitude, targetAmplitude)
             idle == Idle(now, lastDataTime)
             eff  == IF idle THEN Max(c, IdleAmp(wavePhase)) ELSE c
         IN  /\ currentAmplitude' = c
             /\ targetAmplitude' = IF idle THEN Decay(targetAmplitude)
                                    ELSE targetAmplitude
             /\ wavePhase' = wavePhase + AnimationSpeed
             /\ drew' = TRUE /\ idleFrame' = idle
             /\ effectiveAmplitude' = eff
             /\ drawn' = DrawWaveform(eff, canvasWidth, wavePhase + AnimationSpeed)
             /\ RequestAnimationFrame(pending)

\* ------------------------------------------------------ backend supervisor
FreeProcs == {p \in Procs : procState[p] = "none"}

\* startPythonBackend without its check of python-backend/.env.
StartPythonBackendNoEnvCheck ==
    IF pythonProcess # NULL
    THEN /\ spawned' = FALSE /\ fatalLogs' = 0
         /\ UNCHANGED <<pythonProcess, procState>>
    ELSE /\ FreeProcs # {}
         /\ LET p == Min(FreeProcs) IN
              /\ pythonProcess' = p
              /\ procState' = [procState EXCEPT ![p] = "running"]
         /\ spawned' = TRUE /\ fatalLogs' = 0

\* startPythonBackend: nothing when a handle is held; two console.error
\* lines and nothing else when .env is missing; otherwise spawn and keep the
\* handle.
StartPythonBackend ==
    IF pythonProcess # NULL
    THEN /\ spawned' = FALSE /\ fatalLogs' = 0
         /\ UNCHANGED <<pythonProcess, procState>>
    ELSE IF ~envExists
    THEN /\ spawned' = FALSE /\ fatalLogs' = 2
         /\ UNCHANGED <<pythonProcess, procState>>
    ELSE /\ FreeProcs # {}
         /\ LET p == Min(FreeProcs) IN
              /\ pythonProcess' = p
              /\ procState' = [procState EXCEPT ![p] = "running"]
         /\ spawned' = TRUE /\ fatalLogs' = 0

\* ----------------------------------------------------------- bridge client
WsUrl(cfg) == cfg.pythonHost

\* new WebSocket(url) throws a SyntaxError for a URL it cannot parse.
CtorThrows(url) == url = "bad host"

Pow2(n) == 2 ^ n

\* The backoff without its ceiling.
DelayUncapped(attempts) == BackoffBase * Pow2(attempts)

\* const delay = Math.min(1000 * Math.pow(2, this.reconnectAttempts), 30000)
Delay(attempts) ==
    IF BackoffBase * Pow2(attempts) < BackoffCap
    THEN BackoffBase * Pow2(attempts) ELSE BackoffCap

\* scheduleReconnect: clear the old timer, count the attempt, arm the timer.
ScheduleReconnect ==
    /\ reconnectAttempts < MaxAttempts
    /\ reconnectAttempts' = reconnectAttempts + 1
    /\ reconnectDelay' = Delay(reconnectAttempts + 1)
    /\ reconnectTimer' = "pending"

FreeSockets == {s \in Sockets : readyState[s] \in {"NONE", "CLOSED"}}

\* connectWebSocket without its check for an open socket.
ConnectWebSocketAlways(cfg, timer) ==
    IF CtorThrows(WsUrl(cfg))
    THEN /\ ScheduleReconnect
         /\ failures' = failures + 1
         /\ created' = FALSE
         /\ UNCHANGED <<ws, readyState>>
    ELSE /\ FreeSockets # {}
         /\ LET s == Min(FreeSockets) IN
              /\ ws' = s
              /\ readyState' = [x \in Sockets |->
                     IF x = s THEN "CONNECTING"
                     ELSE IF readyState[x] = "CLOSED" THEN "NONE"
                     ELSE readyState[x]]
         /\ created' = TRUE
         /\ reconnectDelay' = 0
         /\ reconnectTimer' = timer
         /\ UNCHANGED <<reconnectAttempts, failures>>

\* connectWebSocket with this.config = cfg; timer is this.reconnectTimer as
\* the caller left it.
ConnectWebSocket(cfg, timer) ==
    IF ws # NULL /\ readyState[ws] = "OPEN"
    THEN /\ created' = FALSE
         /\ reconnectDelay' = 0
         /\ reconnectTimer' = timer
         /\ UNCHANGED <<ws, readyState, reconnectAttempts, failures>>
    ELSE IF CtorThrows(WsUrl(cfg))
    THEN /\ ScheduleReconnect
         /\ failures' = failures + 1
         /\ created' = FALSE
         /\ UNCHANGED <<ws, readyState>>
    ELSE /\ FreeSockets # {}
         /\ LET s == Min(FreeSockets) IN
              /\ ws' = s
              /\ readyState' = [x \in Sockets |->
                     IF x = s THEN "CONNECTING"
                     ELSE IF readyState[x] = "CLOSED" THEN "NONE"
                     ELSE readyState[x]]
         /\ created' = TRUE
         /\ reconnectDelay' = 0
         /\ reconnectTimer' = timer
         /\ UNCHANGED <<reconnectAttempts, failures>>

\* ---------------------------------------------------------------- actions
\* start() of the helper and start() of the frontend module: the state both
\* are constructed in.  The module's start() ends with animateWaveform(),
\* which finds no drawing context yet and requests the first frame.
Init ==
    /\ config = NoConfig /\ ws = NULL /\ pythonProcess = NULL
    /\ readyState = [s \in Sockets |-> "NONE"]
    /\ aborted = {}
    /\ procState = [p \in Procs |-> "none"]
    /\ relaunchTimers = 0
    /\ reconnectTimer = "null" /\ reconnectAttempts = 0
    /\ envExists \in BOOLEAN
    /\ stopped = FALSE /\ failures = 0
    /\ lastOp = "start" /\ lastFrame = "" /\ emitted = <<>>
    /\ reconnectDelay = 0 /\ relaunchDelay = 0
    /\ spawned = FALSE /\ created = FALSE /\ sentOn = NULL /\ uncaught = FALSE
    /\ fatalLogs = 0
    /\ connected = FALSE /\ targetAmplitude = 0 /\ wavePhase = 0
    /\ lastDataTime = 0 /\ now = 0 /\ frontError = FALSE
    /\ currentAmplitude = 0 /\ ctx = FALSE /\ canvasWidth = 0
    /\ animationFrame = 1 /\ rafPending = {1}
    /\ drew = FALSE /\ idleFrame = FALSE /\ effectiveAmplitude = 0
    /\ drawn = NoDrawing
    /\ maxSample = 0 /\ samplesInRange = TRUE /\ frames = 0

\* socketNotificationReceived("CONFIG", cfg)
ConfigReceived(cfg) ==
    /\ config' = cfg
    /\ StartPythonBackend
    /\ ConnectWebSocket(cfg, reconnectTimer)
    /\ SendSocketNotification(<<>>)
    /\ lastOp' = "CONFIG" /\ lastFrame' = ""
    /\ stopped' = FALSE
    /\ relaunchDelay' = 0 /\ sentOn' = NULL /\ uncaught' = FALSE
    /\ UNCHANGED <<aborted, relaunchTimers, envExists>>

\* A close handler that relaunches only after a failure (code # 0).
ProcessCloseRelaunchOnFailure(p, code) ==
    /\ procState[p] # "none"
    /\ relaunchTimers < MaxRelaunch
    /\ procState' = [procState EXCEPT ![p] = "none"]
    /\ pythonProcess' = NULL
    /\ relaunchTimers' = IF code # 0 THEN relaunchTimers + 1 ELSE relaunchTimers
    /\ relaunchDelay' = IF code # 0 THEN RelaunchDelay ELSE 0
    /\ SendSocketNotification(<<>>)
    /\ lastOp' = "processClose" /\ lastFrame' = "" /\ fatalLogs' = 0
    /\ reconnectDelay' = 0 /\ spawned' = FALSE /\ created' = FALSE
    /\ sentOn' = NULL /\ uncaught' = FALSE
    /\ UNCHANGED <<config, ws, readyState, aborted, reconnectTimer,
                   reconnectAttempts, envExists, stopped, failures>>

\* The child's "close" event with its exit code: the process is gone.  The
\* handler logs the code and does the same for every code.
ProcessClose(p, code) ==
    /\ procState[p] # "none"
    /\ relaunchTimers < MaxRelaunch
    /\ procState' = [procState EXCEPT ![p] = "none"]
    /\ pythonProcess' = NULL
    /\ relaunchTimers' = relaunchTimers + 1
    /\ relaunchDelay' = RelaunchDelay
    /\ SendSocketNotification(<<>>)
    /\ lastOp' = "processClose" /\ lastFrame' = "" /\ fatalLogs' = 0
    /\ reconnectDelay' = 0 /\ spawned' = FALSE /\ created' = FALSE
    /\ sentOn' = NULL /\ uncaught' = FALSE
    /\ UNCHANGED <<config, ws, readyState, aborted, reconnectTimer,
                   reconnectAttempts, envExists, stopped, failures>>

\* The callback of the relaunch timer.
RelaunchTimerFired ==
    /\ relaunchTimers > 0
    /\ relaunchTimers' = relaunchTimers - 1
    /\ IF config # NoConfig
       THEN StartPythonBackend
       ELSE spawned' = FALSE /\ fatalLogs' = 0 /\ UNCHANGED <<pythonProcess, procState>>
    /\ SendSocketNotification(<<>>)
    /\ lastOp' = "relaunchTimer" /\ lastFrame' = ""
    /\ reconnectDelay' = 0 /\ relaunchDelay' = 0 /\ created' = FALSE
    /\ sentOn' = NULL /\ uncaught' = FALSE
    /\ UNCHANGED <<config, ws, readyState, aborted, reconnectTimer,
                   reconnectAttempts, envExists, stopped, failures>>

\* The callback of the reconnect timer.
ReconnectTimerFired ==
    /\ reconnectTimer = "pending"
    /\ ConnectWebSocket(config, "fired")
    /\ SendSocketNotification(<<>>)
    /\ lastOp' = "reconnectTimer" /\ lastFrame' = "" /\ fatalLogs' = 0
    /\ relaunchDelay' = 0 /\ spawned' = FALSE /\ sentOn' = NULL /\ uncaught' = FALSE
    /\ UNCHANGED <<config, aborted, pythonProcess, procState, relaunchTimers,
                   envExists, stopped>>

\* An open handler that leaves the attempt counter as it is.
SocketOpenNoReset(s) ==
    /\ readyState[s] = "CONNECTING"
    /\ readyState' = [readyState EXCEPT ![s] = "OPEN"]
    /\ failures' = 0
    /\ SendSocketNotification(<<ConnectionStatus(TRUE)>>)
    /\ uncaught' = (ws = NULL \/ (ws # NULL /\ readyState'[ws] = "CONNECTING"))
    /\ sentOn' = IF ws # NULL /\ readyState'[ws] = "OPEN" THEN ws ELSE NULL
    /\ lastOp' = "open" /\ lastFrame' = "" /\ fatalLogs' = 0
    /\ reconnectDelay' = 0 /\ relaunchDelay' = 0 /\ spawned' = FALSE /\ created' = FALSE
    /\ UNCHANGED <<config, ws, aborted, pythonProcess, procState, relaunchTimers,
                   reconnectTimer, reconnectAttempts, envExists, stopped>>

\* The "open" event of socket s.  The handler sends the handshake on
\* this.ws, whichever socket that is now: send throws on a connecting
\* socket, reading this.ws.send throws when this.ws is null, and on a
\* closing or closed socket the frame is dropped.
SocketOpen(s) ==
    /\ readyState[s] = "CONNECTING"
    /\ readyState' = [readyState EXCEPT ![s] = "OPEN"]
    /\ reconnectAttempts' = 0
    /\ failures' = 0
    /\ SendSocketNotification(<<ConnectionStatus(TRUE)>>)
    /\ uncaught' = (ws = NULL \/ (ws # NULL /\ readyState'[ws] = "CONNECTING"))
    /\ sentOn' = IF ws # NULL /\ readyState'[ws] = "OPEN" THEN ws ELSE NULL
    /\ lastOp' = "open" /\ lastFrame' = "" /\ fatalLogs' = 0
    /\ reconnectDelay' = 0 /\ relaunchDelay' = 0 /\ spawned' = FALSE /\ created' = FALSE
    /\ UNCHANGED <<config, ws, aborted, pythonProcess, procState, relaunchTimers,
                   reconnectTimer, envExists, stopped>>

\* JSON.parse(data) throws, or reading message.type throws (message is null).
MessageThrows(frame) == JSONParse(frame).kind \in {"throw", "null"}

\* A handler that forwards every message that has a type.
IsTyped(frame) == ~MessageThrows(frame) /\ JSONParse(frame).type # "undefined"

\* if (message.type === "waveform")
IsWaveform(frame) == ~MessageThrows(frame) /\ JSONParse(frame).type = "waveform"

\* The handler's body without its try { } catch.
MessageEscapesNoTry(frame) == MessageThrows(frame)

\* Whether an exception of the handler's body leaves the handler: the body
\* is inside try { } catch, so none does.
MessageEscapes(frame) == FALSE

\* The "message" event of socket s with the text frame.
SocketMessage(s, frame) ==
    /\ readyState[s] = "OPEN"
    /\ SendSocketNotification(IF IsWaveform(frame)
                              THEN <<WaveformData(JSONParse(frame).data)>>
                              ELSE <<>>)
    /\ uncaught' = MessageEscapes(frame)
    /\ lastOp' = "message" /\ lastFrame' = frame /\ fatalLogs' = 0
    /\ reconnectDelay' = 0 /\ relaunchDelay' = 0 /\ spawned' = FALSE
    /\ created' = FALSE /\ sentOn' = NULL
    /\ UNCHANGED helperVars

\* An error handler that only logs.
SocketErrorSilent(s) ==
    /\ \/ readyState[s] \in {"CONNECTING", "OPEN"}
       \/ s \in aborted
    /\ readyState' = [readyState EXCEPT ![s] = "CLOSING"]
    /\ aborted' = aborted \ {s}
    /\ SendSocketNotification(<<>>)
    /\ lastOp' = "error" /\ lastFrame' = "" /\ fatalLogs' = 0
    /\ reconnectDelay' = 0 /\ relaunchDelay' = 0 /\ spawned' = FALSE
    /\ created' = FALSE /\ sentOn' = NULL /\ uncaught' = FALSE
    /\ UNCHANGED <<config, ws, pythonProcess, procState, relaunchTimers,
                   reconnectTimer, reconnectAttempts, envExists, stopped, failures>>

\* The "error" event of socket s: a failed handshake or a broken connection;
\* ws leaves the socket closing and emits "close" afterwards.
SocketError(s) ==
    /\ \/ readyState[s] \in {"CONNECTING", "OPEN"}
       \/ s \in aborted
    /\ readyState' = [readyState EXCEPT ![s] = "CLOSING"]
    /\ aborted' = aborted \ {s}
    /\ SendSocketNotification(<<ConnectionStatus(FALSE)>>)
    /\ lastOp' = "error" /\ lastFrame' = "" /\ fatalLogs' = 0
    /\ reconnectDelay' = 0 /\ relaunchDelay' = 0 /\ spawned' = FALSE
    /\ created' = FALSE /\ sentOn' = NULL /\ uncaught' = FALSE
    /\ UNCHANGED <<config, ws, pythonProcess, procState, relaunchTimers,
                   reconnectTimer, reconnectAttempts, envExists, stopped, failures>>

\* A close handler that reports the status and schedules no reconnect.
SocketCloseNoReconnect(s) ==
    /\ readyState[s] \in {"OPEN", "CLOSING"}
    /\ s \notin aborted
    /\ readyState' = [readyState EXCEPT ![s] = IF s = ws THEN "CLOSED" ELSE "NONE"]
    /\ SendSocketNotification(<<ConnectionStatus(FALSE)>>)
    /\ lastOp' = "close" /\ lastFrame' = "" /\ fatalLogs' = 0
    /\ reconnectDelay' = 0 /\ relaunchDelay' = 0 /\ spawned' = FALSE
    /\ created' = FALSE /\ sentOn' = NULL /\ uncaught' = FALSE
    /\ UNCHANGED <<config, ws, aborted, pythonProcess, procState, relaunchTimers,
                   reconnectTimer, reconnectAttempts, envExists, stopped, failures>>

\* The "close" event of socket s.
SocketClose(s) ==
    /\ readyState[s] \in {"OPEN", "CLOSING"}
    /\ s \notin aborted
    /\ readyState' = [readyState EXCEPT ![s] = IF s = ws THEN "CLOSED" ELSE "NONE"]
    /\ SendSocketNotification(<<ConnectionStatus(FALSE)>>)
    /\ ScheduleReconnect
    /\ failures' = failures + 1
    /\ lastOp' = "close" /\ lastFrame' = "" /\ fatalLogs' = 0
    /\ relaunchDelay' = 0 /\ spawned' = FALSE
    /\ created' = FALSE /\ sentOn' = NULL /\ uncaught' = FALSE
    /\ UNCHANGED <<config, ws, aborted, pythonProcess, procState, relaunchTimers,
                   envExists, stopped>>

\* stop()
Stop ==
    /\ reconnectTimer' = "null"
    /\ ws' = NULL
    /\ readyState' = [x \in Sockets |->
           IF x # ws THEN readyState[x]
           ELSE IF readyState[x] \in {"CONNECTING", "OPEN"} THEN "CLOSING"
           ELSE IF readyState[x] = "CLOSED" THEN "NONE"
           ELSE readyState[x]]
    /\ aborted' = IF ws # NULL /\ readyState[ws] = "CONNECTING"
                  THEN aborted \cup {ws} ELSE aborted
    /\ pythonProcess' = NULL
    /\ procState' = [x \in Procs |-> IF x = pythonProcess THEN "killed" ELSE procState[x]]
    /\ stopped' = TRUE
    /\ SendSocketNotification(<<>>)
    /\ lastOp' = "stop" /\ lastFrame' = "" /\ fatalLogs' = 0
    /\ reconnectDelay' = 0 /\ relaunchDelay' = 0 /\ spawned' = FALSE
    /\ created' = FALSE /\ sentOn' = NULL /\ uncaught' = FALSE
    /\ UNCHANGED <<config, relaunchTimers, reconnectAttempts, envExists, failures>>

\* Time passes.
Tick ==
    /\ now < MaxTime
    /\ now' = now + 1
    /\ emitted' = <<>>
    /\ lastOp' = "tick" /\ lastFrame' = "" /\ fatalLogs' = 0
    /\ reconnectDelay' = 0 /\ relaunchDelay' = 0 /\ spawned' = FALSE
    /\ created' = FALSE /\ sentOn' = NULL /\ uncaught' = FALSE
    /\ frontError' = FALSE
    /\ NoFrame
    /\ UNCHANGED <<helperVars, connected, targetAmplitude, wavePhase, lastDataTime,
                   animVars, histVars>>

\* python-backend/.env is created or removed.
EnvChange ==
    /\ envExists' = ~envExists
    /\ SendSocketNotification(<<>>)
    /\ lastOp' = "env" /\ lastFrame' = "" /\ fatalLogs' = 0
    /\ reconnectDelay' = 0 /\ relaunchDelay' = 0 /\ spawned' = FALSE
    /\ created' = FALSE /\ sentOn' = NULL /\ uncaught' = FALSE
    /\ UNCHANGED <<config, ws, readyState, aborted, pythonProcess, procState,
                   relaunchTimers, reconnectTimer, reconnectAttempts, stopped, failures>>

\* ------------------------------------------------------ frontend actions
\* What a step of the frontend module leaves of the helper: nothing changes
\* and the helper's handlers did nothing.
FrontendStep(op) ==
    /\ lastOp' = op /\ lastFrame' = "" /\ emitted' = <<>>
    /\ reconnectDelay' = 0 /\ relaunchDelay' = 0 /\ spawned' = FALSE
    /\ created' = FALSE /\ sentOn' = NULL /\ uncaught' = FALSE /\ fatalLogs' = 0
    /\ UNCHANGED helperVars

\* The browser runs the frame callback of request id.
AnimationFrameFired(id) ==
    /\ id \in rafPending
    /\ AnimateWaveform(rafPending \ {id})
    /\ frames' = frames + 1
    /\ frontError' = FALSE
    /\ FrontendStep("frame")
    /\ UNCHANGED <<connected, lastDataTime, now, ctx, canvasWidth,
                   maxSample, samplesInRange>>

\* suspend(): cancel the request this.animationFrame names, if it names one.
Suspend ==
    /\ IF animationFrame # NULL
       THEN /\ rafPending' = rafPending \ {animationFrame}
            /\ animationFrame' = NULL
       ELSE UNCHANGED <<animationFrame, rafPending>>
    /\ NoFrame /\ frontError' = FALSE
    /\ FrontendStep("suspend")
    /\ UNCHANGED <<frontVars, histVars, currentAmplitude, ctx, canvasWidth>>

\* resume() calling animateWaveform() whatever this.animationFrame holds.
ResumeAlways ==
    /\ AnimateWaveform(rafPending)
    /\ frames' = frames + 1
    /\ frontError' = FALSE
    /\ FrontendStep("resume")
    /\ UNCHANGED <<connected, lastDataTime, now, ctx, canvasWidth,
                   maxSample, samplesInRange>>

\* resume(): run animateWaveform() at once unless a request is recorded.
Resume ==
    /\ IF animationFrame = NULL
       THEN /\ AnimateWaveform(rafPending)
            /\ frames' = frames + 1
       ELSE /\ NoFrame
            /\ UNCHANGED <<animationFrame, rafPending, currentAmplitude,
                           targetAmplitude, wavePhase, frames>>
    /\ frontError' = FALSE
    /\ FrontendStep("resume")
    /\ UNCHANGED <<connected, lastDataTime, now, ctx, canvasWidth,
                   maxSample, samplesInRange>>

\* getDom(): the canvas of the configured width and its 2d context.  The
\* module never asks for its DOM to be rebuilt, so this runs once.
GetDom(w) ==
    /\ ~ctx
    /\ ctx' = TRUE /\ canvasWidth' = w
    /\ NoFrame /\ frontError' = FALSE
    /\ FrontendStep("getDom")
    /\ UNCHANGED <<frontVars, histVars, currentAmplitude, animationFrame, rafPending>>

\* The frontend module's socketNotificationReceived(notification, payload).
Notified(n) ==
    /\ FrontendReceived(n)
    /\ NoFrame
    /\ FrontendStep("notification")
    /\ UNCHANGED animVars

\* Time passes while the animation runs.
Elapse ==
    /\ now < MaxClock
    /\ now' = now + 1
    /\ NoFrame /\ frontError' = FALSE
    /\ FrontendStep("tick")
    /\ UNCHANGED <<connected, targetAmplitude, wavePhase, lastDataTime,
                   animVars, histVars>>

\* The notifications the helper sends.
Notifications ==
    {ConnectionStatus(c) : c \in BOOLEAN} \cup {WaveformData(d) : d \in SampleData}

Next ==
    \/ \E cfg \in Configs : ConfigReceived(cfg)
    \/ \E p \in Procs, code \in ExitCodes : ProcessClose(p, code)
    \/ RelaunchTimerFired
    \/ ReconnectTimerFired
    \/ \E s \in Sockets : SocketOpen(s)
    \/ \E s \in Sockets, frame \in Frames : SocketMessage(s, frame)
    \/ \E s \in Sockets : SocketError(s)
    \/ \E s \in Sockets : SocketClose(s)
    \/ Stop
    \/ EnvChange
    \/ Tick
    \/ \E id \in RafIds : AnimationFrameFired(id)
    \/ \E w \in Widths : GetDom(w)
    \/ Suspend
    \/ Resume

\* The whole helper with its frontend, in every environment.
Spec == Init /\ [][Next]_vars

\* The supervisor and the bridge client share no field: CONFIG and stop()
\* drive both, every other handler touches one of them only.  Each is
\* checked in an environment that keeps the other one quiet.

\* The bridge client: python-backend/.env is missing, so startPythonBackend
\* returns at its check on every call and no process ever exists.
InitBridge == Init /\ envExists = FALSE

NextBridge ==
    \/ \E cfg \in Configs : ConfigReceived(cfg)
    \/ ReconnectTimerFired
    \/ \E s \in Sockets : SocketOpen(s)
    \/ \E s \in Sockets, frame \in Frames : SocketMessage(s, frame)
    \/ \E s \in Sockets : SocketError(s)
    \/ \E s \in Sockets : SocketClose(s)
    \/ Stop
    \/ Tick

SpecBridge == InitBridge /\ [][NextBridge]_vars

\* The supervisor: the backend's server is healthy and quick.  The URL is
\* well formed, every connection opens, a socket closes only because stop()
\* closed it, and the bridge has settled when the next CONFIG or stop()
\* comes.  The supervisor reads nothing of the bridge, so every order of
\* CONFIG, stop(), exits, relaunch timers and changes of .env stays possible.
HealthyConfigs == {cfg \in Configs : ~CtorThrows(WsUrl(cfg))}

BridgeQuiet ==
    /\ \A s \in Sockets : readyState[s] \notin {"CONNECTING", "CLOSING"}
    /\ reconnectTimer # "pending"

QuietConfigReceived(cfg) == BridgeQuiet /\ ConfigReceived(cfg)

QuietStop == BridgeQuiet /\ Stop

CloseDelivered(s) == readyState[s] = "CLOSING" /\ SocketClose(s)

NextSupervisor ==
    \/ \E cfg \in HealthyConfigs : QuietConfigReceived(cfg)
    \/ \E p \in Procs, code \in ExitCodes : ProcessClose(p, code)
    \/ RelaunchTimerFired
    \/ ReconnectTimerFired
    \/ \E s \in Sockets : SocketOpen(s)
    \/ \E s \in Sockets : CloseDelivered(s)
    \/ QuietStop
    \/ EnvChange

SpecSupervisor == Init /\ [][NextSupervisor]_vars

\* A timer that is armed fires: the event loop runs every due callback.
LiveSupervisor == SpecSupervisor /\ WF_vars(RelaunchTimerFired)

\* The frontend module alone: the helper is its environment and sends it
\* any notification at any time.
FrameWithinBound(id) == frames < MaxFrames /\ AnimationFrameFired(id)

NextFrontend ==
    \/ \E n \in Notifications : Notified(n)
    \/ \E id \in RafIds : FrameWithinBound(id)
    \/ \E w \in Widths : GetDom(w)
    \/ Elapse

\* The helper receives nothing here, so python-backend/.env plays no part:
\* take it missing.
InitFrontend == Init /\ ~envExists

SpecFrontend == InitFrontend /\ [][NextFrontend]_vars

\* The smoother going idle: the canvas is made, samples with an amplitude in
\* [0, 1] come and a few frames run, then the clock passes the idle
\* threshold, no further sample comes and the frames go on.  Frames that
\* find no canvas change nothing and are left out.
IdleSamples == {AmplitudeOnly(a) : a \in {x \in SampleAmplitudes : InRange(x)}}

LoadingFrame(id) ==
    /\ ctx /\ ~Idle(now, lastDataTime)
    /\ frames < MaxFrames
    /\ AnimationFrameFired(id)

IdleFrame(id) ==
    /\ ctx /\ Idle(now, lastDataTime)
    /\ frames < MaxIdleFrames
    /\ AnimationFrameFired(id)

SampleBeforeIdle(d) == ~Idle(now, lastDataTime) /\ Notified(WaveformData(d))

NextIdle ==
    \/ GetDom(CanvasWidth)
    \/ \E d \in IdleSamples : SampleBeforeIdle(d)
    \/ \E id \in RafIds : LoadingFrame(id)
    \/ \E id \in RafIds : IdleFrame(id)
    \/ Elapse

SpecIdle == InitFrontend /\ [][NextIdle]_vars

\* The browser runs the frame callbacks it was asked for.
LiveIdle == SpecIdle /\ WF_vars(\E id \in RafIds : IdleFrame(id))

\* The animation loop under suspend() and resume(): the canvas is made at
\* some point, samples come, time passes, the browser runs the frame
\* callbacks it holds and the host suspends and resumes the module in any
\* order.
ResumeWithinBound == frames < MaxFrames /\ Resume

NextLoop ==
    \/ GetDom(CanvasWidth)
    \/ \E d \in IdleSamples : Notified(WaveformData(d))
    \/ \E id \in RafIds : FrameWithinBound(id)
    \/ Suspend
    \/ ResumeWithinBound
    \/ Elapse

SpecLoop == InitFrontend /\ [][NextLoop]_vars

\* ------------------------------------------------------------------ claims
Disconnected == <<ConnectionStatus(FALSE)>>

LiveProcs == {p \in Procs : procState[p] # "none"}

\* The delays the specification lists for failures 1, 2, 3, ...
DelaySequence == <<2000, 4000, 8000, 16000, 30000, 30000>>

\* C1: a handler that runs scheduleReconnect after k failures since the last
\* open arms the timer with the k-th delay of 2000, 4000, 8000, 16000, 30000,
\* 30000, ..., and never with more than 30000 ms.
C1_BackoffDelay ==
    reconnectDelay # 0 =>
        /\ failures >= 1
        /\ reconnectDelay <= 30000
        /\ reconnectDelay = IF failures <= Len(DelaySequence)
                            THEN DelaySequence[failures] ELSE 30000

\* Six failures in a row: the second capped delay.
C1_Witness == failures = 6 /\ reconnectDelay = 30000 /\ reconnectTimer = "pending"

\* C2: once stop() has run, no backend process is spawned (until a new
\* CONFIG starts the helper again): neither by the timer armed at the exit
\* of the process stop() killed, nor by a timer pending when stop() ran.
C2_NoSpawnAfterStop == stopped => ~spawned

\* C3: once stop() has run, no reconnect timer is pending and no WebSocket
\* is constructed (until a new CONFIG starts the helper again), whatever
\* socket events are delivered.
C3_QuietAfterStop == stopped => reconnectTimer # "pending" /\ ~created

\* C4: at most one backend child process is alive at any time.
C4_AtMostOneProcess == Cardinality(LiveProcs) <= 1

\* C5: every exit of the child clears the handle and arms the 5000 ms timer,
\* and while stop() has not run and .env exists it is followed by a spawn.
C5_ExitLeadsToSpawn ==
    /\ [](lastOp = "processClose" =>
            pythonProcess = NULL /\ relaunchDelay = 5000 /\ relaunchTimers > 0)
    /\ (lastOp = "processClose" /\ ~stopped /\ envExists)
           ~> (spawned \/ stopped \/ ~envExists)

\* The relaunch timer spawned a process after an exit, stop() not called.
C5_Witness ==
    lastOp = "relaunchTimer" /\ spawned /\ ~stopped /\ pythonProcess # NULL

\* C6 as stated: after the first CONFIG and until stop(), the current socket
\* is connecting or open, or a reconnect timer is pending.
C6_NeverStuckOriginal ==
    (config # NoConfig /\ ~stopped) =>
        \/ ws # NULL /\ readyState[ws] \in {"CONNECTING", "OPEN"}
        \/ reconnectTimer = "pending"

\* C6 amended: after the first CONFIG and until stop(), the current socket
\* is connecting, open or closing (its close event is still to come), or a
\* reconnect timer is pending.
C6_NeverStuck ==
    (config # NoConfig /\ ~stopped) =>
        \/ ws # NULL /\ readyState[ws] \in {"CONNECTING", "OPEN", "CLOSING"}
        \/ reconnectTimer = "pending"

\* The current socket has closed and the reconnect is pending.
C6_Witness ==
    /\ ~stopped /\ ws # NULL /\ readyState[ws] = "CLOSED"
    /\ reconnectTimer = "pending"

\* C7 as stated: the close handler and the error handler each emit
\* Disconnected and schedule a reconnect.
C7_CloseAndErrorOriginal ==
    lastOp \in {"close", "error"} =>
        emitted = Disconnected /\ reconnectDelay # 0

\* C7 amended: the close handler emits Disconnected and schedules a
\* reconnect; the error handler emits Disconnected and schedules nothing:
\* it leaves the timer to the close event that follows the error.
C7_CloseAndError ==
    /\ lastOp = "close" =>
          emitted = Disconnected /\ ~connected
          /\ reconnectDelay # 0 /\ reconnectTimer = "pending"
    /\ lastOp = "error" =>
          emitted = Disconnected /\ ~connected /\ reconnectDelay = 0
          /\ \E s \in Sockets : readyState[s] = "CLOSING"

\* An error event was handled and no reconnect is pending yet.
C7_Witness ==
    lastOp = "error" /\ emitted = Disconnected /\ reconnectTimer # "pending"

\* C8: a constructor that throws is handled as a close event is: nothing
\* escapes, Disconnected is emitted and the reconnect is scheduled.  (In a
\* CONFIG or timer step, a reconnect delay means the catch branch ran.)
C8_CtorFailureAsClose ==
    (lastOp \in {"CONFIG", "reconnectTimer"} /\ reconnectDelay # 0) =>
        ~uncaught /\ emitted = Disconnected /\ reconnectTimer = "pending"

\* A frame that is no JSON, or whose value has no type field.
Malformed(frame) ==
    JSONParse(frame).kind = "throw" \/ JSONParse(frame).type = "undefined"

\* C9: handling a malformed frame lets no exception out, sends nothing and
\* changes nothing of the bridge or of the frontend.
C9_MalformedDropped ==
    [][(lastOp' = "message" /\ Malformed(lastFrame')) =>
          /\ ~uncaught'
          /\ emitted' = <<>>
          /\ UNCHANGED <<helperVars, frontVars>>]_vars

\* A frame of invalid JSON was handled on a socket that is still open.
C9_Witness ==
    /\ lastOp = "message" /\ lastFrame = "not json" /\ ~uncaught
    /\ \E s \in Sockets : readyState[s] = "OPEN"

\* C10: a message step sends WAVEFORM_DATA, once and with the message's
\* data, exactly when the frame is a JSON object of type "waveform"; any
\* other message sends nothing and leaves the smoother state alone; and no
\* other handler sends WAVEFORM_DATA.
C10_WaveformForwarded ==
    [][/\ lastOp' = "message" =>
            LET m == JSONParse(lastFrame') IN
            IF m.kind = "object" /\ m.type = "waveform"
            THEN emitted' = <<WaveformData(m.data)>>
            ELSE /\ emitted' = <<>>
                 /\ UNCHANGED <<targetAmplitude, wavePhase, lastDataTime>>
       /\ lastOp' # "message" =>
            \A i \in 1..Len(emitted') : emitted'[i].notification # "WAVEFORM_DATA"
      ]_vars

\* A sample was forwarded and the frontend took its amplitude.
C10_Witness ==
    /\ lastOp = "message"
    /\ emitted = <<WaveformData(Sample(800, 157))>>
    /\ targetAmplitude = 800 /\ wavePhase = 157 /\ lastDataTime = now /\ now > 0

\* The step called startPythonBackend while python-backend/.env was missing
\* (CONFIG always calls it, the relaunch timer when a config is held).
StartedWithoutEnv ==
    /\ ~envExists'
    /\ \/ lastOp' = "CONFIG"
       \/ lastOp' = "relaunchTimer" /\ config # NoConfig

\* C11: a call of startPythonBackend that finds .env missing spawns no
\* process, leaves the handle as it was (null stays null) and arms no
\* relaunch timer.
C11_NoSpawnWithoutEnv ==
    [][StartedWithoutEnv =>
          /\ ~spawned'
          /\ pythonProcess' = pythonProcess /\ procState' = procState
          /\ relaunchDelay' = 0 /\ relaunchTimers' <= relaunchTimers]_vars

\* The relaunch timer found .env missing: nothing runs and no timer is left.
C11_Witness ==
    /\ lastOp = "relaunchTimer" /\ config # NoConfig /\ ~envExists
    /\ fatalLogs = 2 /\ ~spawned
    /\ pythonProcess = NULL /\ LiveProcs = {} /\ relaunchTimers = 0

\* C18: a call of startPythonBackend made while .env is missing writes
\* exactly one fatal log entry.
C18_OneFatalLog ==
    [][StartedWithoutEnv => fatalLogs' = 1]_vars

\* C19: the open handler sets reconnectAttempts to 0, the counter stays 0
\* until the next reconnect is scheduled, and that reconnect is armed with
\* 2000 ms, however many failures came before the open.
C19_OpenResetsAttempts ==
    [][/\ lastOp' = "open" => reconnectAttempts' = 0
       /\ (lastOp' # "open" /\ reconnectDelay' = 0) =>
              reconnectAttempts' = reconnectAttempts
       /\ (reconnectAttempts = 0 /\ reconnectDelay' # 0) =>
              /\ reconnectDelay' = 2000
              /\ reconnectDelay' >= 1000 /\ reconnectDelay' <= 2000]_vars

\* A socket that the reconnect timer constructed (so after a failure) has
\* opened: the counter is back at 0.
C19_Witness ==
    /\ lastOp = "open" /\ reconnectTimer = "fired" /\ reconnectAttempts = 0
    /\ ws # NULL /\ readyState[ws] = "OPEN" /\ sentOn = ws

\* C20: the step that opens a socket emits Connected and sends the config
\* handshake once, on the socket that just opened, which is open; no
\* exception leaves the handler.
C20_HandshakeOnOpened ==
    [][lastOp' = "open" =>
          /\ emitted' = <<ConnectionStatus(TRUE)>>
          /\ ~uncaught'
          /\ \E s \in Sockets :
                /\ readyState[s] = "CONNECTING" /\ readyState'[s] = "OPEN"
                /\ sentOn' = s]_vars

\* C12: a step that ingests a sample (the helper's message handler, or the
\* frontend's notification handler given WAVEFORM_DATA) and changes
\* targetAmplitude leaves it in [0, 1].
C12_ClampOnIngest ==
    [][(lastOp' \in {"message", "notification"}
           /\ targetAmplitude' # targetAmplitude) =>
          InRange(targetAmplitude')]_vars

\* C13: while every sample amplitude was in [0, 1], currentAmplitude is in
\* [0, M], M the largest sample amplitude so far (0 before the first one).
C13_NoOvershoot ==
    samplesInRange => 0 <= currentAmplitude /\ currentAmplitude <= maxSample

\* Samples 1.0 and then 0.5 came, in [0, 1] all of them, and two frames
\* ran, the last one idle (the target is 0.5 decayed once): the smoothed
\* value is above 0 and below the maximum.
C13_Witness ==
    /\ lastOp = "frame" /\ drew /\ idleFrame /\ frames = 2
    /\ samplesInRange /\ maxSample = 1000 /\ targetAmplitude = 480
    /\ currentAmplitude > 0 /\ currentAmplitude < maxSample

\* target - current
Gap == targetAmplitude - currentAmplitude

\* b is 0.82 times a, rounded as the smoother rounds, on the same side of 0
\* and no larger.
Contracted(a, b) ==
    /\ 100 * b - 82 * a <= 50 /\ 82 * a - 100 * b <= 50
    /\ (a >= 0 => b >= 0) /\ (a <= 0 => b <= 0)
    /\ (a >= 0 => b <= a) /\ (a <= 0 => b >= a)

\* C14 as stated: a frame that updates replaces the gap
\* targetAmplitude - currentAmplitude by 0.82 times its value, without
\* changing its sign or increasing its magnitude (here: while every sample
\* was in [0, 1]).
C14_ContractionOriginal ==
    [][(lastOp' = "frame" /\ drew' /\ samplesInRange) =>
          Contracted(Gap, Gap')]_vars

\* C14 amended: a frame that updates moves currentAmplitude toward the
\* target the frame began with: the gap to that target becomes 0.82 times
\* its value, keeps its sign and does not grow.  A frame that is not idle
\* leaves targetAmplitude alone, so there this is the gap to targetAmplitude
\* itself; an idle frame lowers targetAmplitude afterwards.
C14_Contraction ==
    [][(lastOp' = "frame" /\ drew') =>
          /\ Contracted(Gap, targetAmplitude - currentAmplitude')
          /\ ~idleFrame' => /\ targetAmplitude' = targetAmplitude
                            /\ Contracted(Gap, Gap')
          /\ idleFrame' => targetAmplitude' = Decay(targetAmplitude)]_vars

\* Two frames with no sample between them: 0 -> 0.18 -> 0.3276 of 1.0.
C14_Witness ==
    /\ lastOp = "frame" /\ drew /\ ~idleFrame /\ frames = 2
    /\ targetAmplitude = 1000 /\ currentAmplitude = 328

\* C16: every frame callback advances wavePhase by animationSpeed.
C16_PhaseAdvances ==
    [][lastOp' = "frame" => wavePhase' = wavePhase + AnimationSpeed]_vars

\* C17: drawWaveform on a canvas of width >= 1 with an amplitude in [0, 1]
\* makes min(200, width) points whose coordinates are all numbers.
C17_PointsDefined ==
    (lastOp = "frame" /\ drew /\ canvasWidth >= 1 /\ InRange(effectiveAmplitude)) =>
        /\ drawn.numPoints = NumPoints(canvasWidth)
        /\ drawn.defined
        /\ drawn.first[1] # NaN /\ drawn.first[2] # NaN
        /\ drawn.last[1] # NaN /\ drawn.last[2] # NaN

\* The smoother has gone idle on a canvas.
IdleNow == ctx /\ Idle(now, lastDataTime)

\* Smoothed value and target are both within [0, idleAmplitude].
Settled ==
    /\ 0 <= currentAmplitude /\ currentAmplitude <= IdleAmplitude
    /\ 0 <= targetAmplitude /\ targetAmplitude <= IdleAmplitude

\* C15: once idle, every frame lowers targetAmplitude (never below 0, and
\* strictly while it is above 0.012, where rounding to thousandths ends the
\* decay); the frames lead to smoothed value and target within
\* [0, idleAmplitude]; and from there on every idle frame passes an
\* effective amplitude within [0, idleAmplitude] to the renderer.
C15_IdleConverges ==
    /\ [][(lastOp' = "frame" /\ idleFrame') =>
              /\ 0 <= targetAmplitude' /\ targetAmplitude' <= targetAmplitude
              /\ targetAmplitude > 12 => targetAmplitude' < targetAmplitude]_vars
    /\ IdleNow ~> Settled
    /\ [][(Settled /\ lastOp' = "frame" /\ idleFrame') =>
              /\ Settled'
              /\ 0 <= effectiveAmplitude'
              /\ effectiveAmplitude' <= IdleAmplitude]_vars

\* A sample of 1.0 came before the idling; more than 60 frames later the
\* idle frames have brought target and smoothed value within
\* [0, idleAmplitude].
C15_Witness ==
    /\ lastOp = "frame" /\ idleFrame /\ maxSample = 1000
    /\ frames > 60 /\ Settled
    /\ effectiveAmplitude > 0 /\ effectiveAmplitude <= IdleAmplitude

\* The sockets that are connecting or open.
ActiveSockets == {s \in Sockets : readyState[s] \in {"CONNECTING", "OPEN"}}

\* C21: at most one WebSocket is connecting or open at any time.
C21_AtMostOneSocket == Cardinality(ActiveSockets) <= 1

\* C22: connectWebSocket called (by CONFIG or by the reconnect timer) while
\* the current socket is open constructs no socket, emits nothing, sends
\* nothing and leaves the handle, every socket, the attempt counter and the
\* reconnect timer as they were (a timer that fired has fired).
C22_ConnectNoOpWhenOpen ==
    [][(lastOp' \in {"CONFIG", "reconnectTimer"}
           /\ ws # NULL /\ readyState[ws] = "OPEN") =>
          /\ ~created' /\ emitted' = <<>> /\ sentOn' = NULL /\ ~uncaught'
          /\ ws' = ws /\ readyState' = readyState
          /\ reconnectAttempts' = reconnectAttempts /\ reconnectDelay' = 0
          /\ lastOp' = "CONFIG" => reconnectTimer' = reconnectTimer
          /\ lastOp' = "reconnectTimer" => reconnectTimer' = "fired"]_vars

\* CONFIG came while the current socket was open and a reconnect timer was
\* pending: the socket is still the open one, the timer is still pending.
C22_Witness ==
    /\ lastOp = "CONFIG" /\ ~created
    /\ ws # NULL /\ readyState[ws] = "OPEN"
    /\ reconnectTimer = "pending" /\ reconnectAttempts = 1

\* Milliseconds since the last sample that carried an amplitude (since start
\* when there was none).
TimeSinceData == (now - lastDataTime) * TickMs

\* C23: a drawing frame that finds more than 250 ms passed since the last
\* amplitude draws max(currentAmplitude, idleAmplitude) and multiplies
\* targetAmplitude by 0.96; one that finds at most 250 ms passed draws
\* currentAmplitude and leaves targetAmplitude alone.
C23_IdleFloorAndDecay ==
    [][(lastOp' = "frame" /\ drew') =>
          IF TimeSinceData > IdleThreshold
          THEN /\ effectiveAmplitude' = Max(currentAmplitude', IdleAmp(wavePhase))
               /\ targetAmplitude' = Round(targetAmplitude * DecayPercent, 100)
          ELSE /\ effectiveAmplitude' = currentAmplitude'
               /\ targetAmplitude' = targetAmplitude]_vars

\* An idle frame drew the idle floor over a smaller smoothed amplitude and
\* decayed a target of -0.2 to -0.192.
C23_Witness ==
    /\ lastOp = "frame" /\ drew /\ idleFrame
    /\ TimeSinceData > IdleThreshold
    /\ effectiveAmplitude > currentAmplitude
    /\ targetAmplitude = 0 - 192

\* A frame exactly 250 ms after a sample of 0.5 drew the smoothed amplitude
\* and kept the target.
C23_WitnessBoundary ==
    /\ lastOp = "frame" /\ drew /\ ~idleFrame
    /\ TimeSinceData = IdleThreshold
    /\ effectiveAmplitude = currentAmplitude /\ currentAmplitude = 90
    /\ targetAmplitude = 500

\* C24: at most one animation-frame request is pending at any time and
\* this.animationFrame names it; every frame callback leaves exactly one
\* pending, drawing nothing when there is no canvas; suspend leaves none
\* and only resume makes one pending again; resume while one is pending
\* changes nothing.
C24_OneRequestPending ==
    /\ Cardinality(rafPending) <= 1
    /\ [][/\ Cardinality(rafPending') <= 1
          /\ rafPending' = IF animationFrame' = NULL THEN {} ELSE {animationFrame'}
          /\ lastOp' = "frame" => Cardinality(rafPending') = 1 /\ (drew' <=> ctx)
          /\ lastOp' = "suspend" => rafPending' = {}
          /\ (rafPending = {} /\ rafPending' # {}) => lastOp' = "resume"
          /\ (lastOp' = "resume" /\ rafPending # {}) =>
                /\ ~drew'
                /\ UNCHANGED <<rafPending, animationFrame, currentAmplitude,
                               targetAmplitude, wavePhase>>]_vars

\* resume() came while the loop was running on a canvas: nothing was drawn
\* and the one request stayed.
C24_Witness ==
    /\ lastOp = "resume" /\ ctx /\ ~drew /\ frames >= 1
    /\ animationFrame # NULL /\ rafPending = {animationFrame}

\* resume() came after suspend(): it drew a frame at once and left one
\* request pending.
C24_WitnessRestart ==
    /\ lastOp = "resume" /\ drew /\ Cardinality(rafPending) = 1

====
